---- MODULE Spec2Model ----
(***************************************************************************)
(* Model of PerformanceAnalysis (Performance_Analysis.py): the return      *)
(* series, the cumulative series, the scalar metrics, the trade statistics *)
(* and the summary, over an Account ledger (dates, total_assets,           *)
(* trade_history).                                                         *)
(*                                                                         *)
(* Numbers are exact rationals <<n, d>> in lowest terms with d > 0.  The   *)
(* floating-point specials are the pairs with d = 0: NaN == <<0, 0>>,      *)
(* +inf == <<1, 0>>, -inf == <<-1, 0>>.  Ledger values are plain Python    *)
(* numbers, so a division by zero in get_total_return raises.  The pandas  *)
(* calls are those of a pandas that accepts fillna(method='ffill').        *)
(***************************************************************************)
EXTENDS Integers, Sequences, FiniteSets

VARIABLES dates, total_assets, trade_history,
          strategy_returns, cumulative_returns, cumulative_net_assets,
          phase, lastCall, raised, result, cumprod_failed

vars == <<dates, total_assets, trade_history,
          strategy_returns, cumulative_returns, cumulative_net_assets,
          phase, lastCall, raised, result, cumprod_failed>>

ledger == <<dates, total_assets, trade_history>>
series == <<strategy_returns, cumulative_returns, cumulative_net_assets>>

\* ---------------------------------------------------------------- bounds
MaxLen == 3
MaxTrades == 2

\* Asset values a ledger holds: a negative value, zero, and positive values
\* whose day-over-day changes fall inside (10->11, 11->12, 12->11, 11->10)
\* and outside (10->12, 12->10) the +-11% band.
Assets == {-5, 0, 10, 11, 12}

\* ------------------------------------------------------------- constants
EpsDen == 1000000
ClipNum == 11
ClipDen == 100
TradingDaysPerYear == 252
Percent == 100

\* ------------------------------------------------------------- rationals
Abs(x) == IF x < 0 THEN -x ELSE x
Sign(x) == IF x < 0 THEN -1 ELSE IF x > 0 THEN 1 ELSE 0

RECURSIVE GCD(_, _)
GCD(a, b) == IF b = 0 THEN a ELSE GCD(b, a % b)

Norm(n, d) ==
    IF d = 0 THEN <<Sign(n), 0>>
    ELSE LET g == GCD(Abs(n), Abs(d))
             s == IF d < 0 THEN -1 ELSE 1
         IN <<(s * n) \div g, (s * d) \div g>>

Rat(n) == <<n, 1>>
NaN == <<0, 0>>
IsNaN(x) == x = NaN
IsFinite(x) == x[2] # 0

\* x + y, x - y, x * y, x / y with the IEEE results for the specials.
RAdd(x, y) ==
    IF IsNaN(x) \/ IsNaN(y) THEN NaN
    ELSE IF ~IsFinite(x) /\ ~IsFinite(y) THEN (IF x = y THEN x ELSE NaN)
    ELSE IF ~IsFinite(x) THEN x
    ELSE IF ~IsFinite(y) THEN y
    ELSE LET g == GCD(x[2], y[2])
         IN Norm(x[1] * (y[2] \div g) + y[1] * (x[2] \div g), (x[2] \div g) * y[2])

RNeg(x) == <<-x[1], x[2]>>
RSub(x, y) == RAdd(x, RNeg(y))

RMul(x, y) ==
    IF IsNaN(x) \/ IsNaN(y) THEN NaN
    ELSE IF ~IsFinite(x) \/ ~IsFinite(y)
         THEN <<Sign(x[1]) * Sign(y[1]), 0>>
    ELSE LET a == Norm(x[1], y[2])
             b == Norm(y[1], x[2])
         IN Norm(a[1] * b[1], a[2] * b[2])

RDiv(x, y) ==
    IF IsNaN(x) \/ IsNaN(y) THEN NaN
    ELSE IF ~IsFinite(x) THEN (IF IsFinite(y) THEN <<x[1] * (IF y[1] < 0 THEN -1 ELSE 1), 0>> ELSE NaN)
    ELSE IF ~IsFinite(y) THEN Rat(0)
    ELSE IF y[1] = 0 THEN <<Sign(x[1]), 0>>
    ELSE RMul(x, Norm(y[2], y[1]))

\* x <= y for numbers that are not NaN (a comparison with NaN is false).
RLe(x, y) ==
    IF IsNaN(x) \/ IsNaN(y) THEN FALSE
    ELSE IF ~IsFinite(x) THEN x[1] < 0 \/ x = y
    ELSE IF ~IsFinite(y) THEN y[1] > 0
    ELSE x[1] * y[2] <= y[1] * x[2]

RLt(x, y) == RLe(x, y) /\ x # y

\* ---------------------------------------------------- pandas on a Series
Eps == Norm(1, EpsDen)
ClipHi == Norm(ClipNum, ClipDen)
ClipLo == Norm(-ClipNum, ClipDen)

\* pd.Series(values, index): the values as floats.
ToSeries(values) == [i \in 1..Len(values) |-> Rat(values[i])]

\* Series.replace(0, np.nan)
ReplaceZero(s) == [i \in 1..Len(s) |-> IF s[i] = Rat(0) THEN NaN ELSE s[i]]

\* Series.fillna(method='ffill'): a NaN takes the last value before it that
\* is not NaN; a leading NaN has none and stays NaN.
RECURSIVE FfillAt(_, _)
FfillAt(s, i) ==
    IF ~IsNaN(s[i]) THEN s[i]
    ELSE IF i = 1 THEN NaN
    ELSE FfillAt(s, i - 1)

Ffill(s) == [i \in 1..Len(s) |-> FfillAt(s, i)]

\* Series.clip(lower=lo): NaN is left alone.
ClipLower(s, lo) ==
    [i \in 1..Len(s) |-> IF IsNaN(s[i]) THEN NaN
                         ELSE IF RLt(s[i], lo) THEN lo ELSE s[i]]

\* Clip without its upper bound.
ClipNoUpper(s, lo, hi) == ClipLower(s, lo)

\* Series.clip(lower=lo, upper=hi)
Clip(s, lo, hi) ==
    [i \in 1..Len(s) |-> IF IsNaN(s[i]) THEN NaN
                         ELSE IF RLt(s[i], lo) THEN lo
                         ELSE IF RLt(hi, s[i]) THEN hi ELSE s[i]]

\* Series.dropna() in the place of fillna(0).
IsNumber(x) == ~IsNaN(x)
DropNa(s) == SelectSeq(s, IsNumber)

\* Series.fillna(0)
FillnaZero(s) == [i \in 1..Len(s) |-> IF IsNaN(s[i]) THEN Rat(0) ELSE s[i]]

\* The change taken over the current value, not the previous one.
PctChangeOverCurrent(s) ==
    LET data == Ffill(s)
    IN [i \in 1..Len(s) |->
          IF i = 1 THEN NaN
          ELSE RDiv(RSub(data[i], data[i - 1]), data[i])]

\* Series.pct_change(): data / data.shift(1) - 1 on the padded data; the
\* first element has no predecessor and is NaN.
PctChange(s) ==
    LET data == Ffill(s)
    IN [i \in 1..Len(s) |->
          IF i = 1 THEN NaN
          ELSE RSub(RDiv(data[i], data[i - 1]), Rat(1))]

\* Series.cumsum() in the place of cumprod().
RECURSIVE CumSumAt(_, _)
CumSumAt(s, i) == IF i = 1 THEN s[1] ELSE RAdd(CumSumAt(s, i - 1), s[i])

CumSum(s) == [i \in 1..Len(s) |-> CumSumAt(s, i)]

\* Series.cumprod()
RECURSIVE CumProdAt(_, _)
CumProdAt(s, i) == IF i = 1 THEN s[1] ELSE RMul(CumProdAt(s, i - 1), s[i])

CumProd(s) == [i \in 1..Len(s) |-> CumProdAt(s, i)]

\* 1 + series, series - 1
AddOne(s) == [i \in 1..Len(s) |-> RAdd(Rat(1), s[i])]
SubOne(s) == [i \in 1..Len(s) |-> RSub(s[i], Rat(1))]

\* ------------------------------------------------------ values and calls
\* A call's outcome: the exception it raises ("none" when it returns) and
\* the value it returns.
Ok(v) == [exc |-> "none", val |-> v]
Raise(e) == [exc |-> e, val |-> [kind |-> "none", v |-> <<>>]]

\* Returned values.  A float is an exact rational.  Values built from a
\* power or a square root are kept symbolic:
\*   pow     <<b, n>>   is (b ** (252 / n) - 1) * 100, a real number
\*   complex <<b, n>>   is the same expression when Python makes it complex
\*   vol     var        is sqrt(var) * sqrt(252) * 100
\*   sharpe  <<a, var>> is (a / 100 - 0.02) / (sqrt(var) * sqrt(252))
NoValue == [kind |-> "none", v |-> <<>>]
Float(x) == [kind |-> "float", v |-> x]
Zero == Float(Rat(0))

None == [none |-> TRUE, s |-> <<>>]
Some(s) == [none |-> FALSE, s |-> s]

\* ------------------------------------------------------ calculate_returns
HasNonPositive(assets) == \E i \in 1..Len(assets) : assets[i] <= 0

\* The asset series the day-over-day change is computed from.
CleanAssets(assets) ==
    IF HasNonPositive(assets)
    THEN ClipLower(Ffill(ReplaceZero(ToSeries(assets))), Eps)
    ELSE ToSeries(assets)

CalcReturns(assets, dts) ==
    IF Len(assets) = 0 THEN Raise("ValueError_no_asset_data")
    ELSE IF Len(dts) # Len(assets) THEN Raise("ValueError_length_mismatch")
    ELSE Ok(Clip(FillnaZero(PctChange(CleanAssets(assets))), ClipLo, ClipHi))

\* self.strategy_returns, computed first when it is still None.
EnsureReturns ==
    IF strategy_returns.none THEN CalcReturns(total_assets, dates)
    ELSE Ok(strategy_returns.s)

\* ----------------------------------------------------------------- metrics
TotalReturn(assets) ==
    IF Len(assets) < 2 THEN Ok(Zero)
    ELSE IF assets[1] = 0 THEN Raise("ZeroDivisionError")
    ELSE Ok(Float(RMul(RSub(Norm(assets[Len(assets)], assets[1]), Rat(1)),
                       Rat(Percent))))

\* get_annualized_return without its guard on fewer than two dates.
AnnualizedReturnNoGuard(assets, dts) ==
    LET tr == TotalReturn(assets)
    IN IF tr.exc # "none" THEN tr
       ELSE LET base == RAdd(Rat(1), RDiv(tr.val.v, Rat(Percent)))
            IN Ok([kind |-> "pow", v |-> <<base, Len(dts)>>])

\* For the ledgers of this model |1 + total_return| <= 12/5, so the power is
\* below 10^48 and float.__pow__ does not overflow.
AnnualizedReturn(assets, dts) ==
    IF Len(dts) < 2 THEN Ok(Zero)
    ELSE LET tr == TotalReturn(assets)
         IN IF tr.exc # "none" THEN tr
            ELSE LET base == RAdd(Rat(1), RDiv(tr.val.v, Rat(Percent)))
                     whole == TradingDaysPerYear % Len(dts) = 0
                 IN IF base[1] < 0 /\ ~whole
                    THEN Ok([kind |-> "complex", v |-> <<base, Len(dts)>>])
                    ELSE Ok([kind |-> "pow", v |-> <<base, Len(dts)>>])

RECURSIVE SumTo(_, _)
SumTo(s, i) == IF i = 0 THEN Rat(0) ELSE RAdd(SumTo(s, i - 1), s[i])

Mean(s) == RDiv(SumTo(s, Len(s)), Rat(Len(s)))

\* Series.std() squared: the sample variance (ddof = 1).
Variance(s) ==
    LET m == Mean(s)
        sq == [i \in 1..Len(s) |-> RMul(RSub(s[i], m), RSub(s[i], m))]
    IN RDiv(SumTo(sq, Len(s)), Rat(Len(s) - 1))

Volatility(rets) ==
    IF Len(rets) < 2 THEN Ok(Zero)
    ELSE LET var == Variance(rets)
         IN IF var = Rat(0) THEN Ok(Zero)
            ELSE Ok([kind |-> "vol", v |-> var])

SharpeRatio(rets, assets, dts) ==
    IF Len(rets) < 2 THEN Ok(Zero)
    ELSE LET ann == AnnualizedReturn(assets, dts)
             var == Variance(rets)
         IN IF ann.exc # "none" THEN ann
            ELSE IF var = Rat(0) THEN Ok(Zero)
            ELSE Ok([kind |-> "sharpe", v |-> <<ann.val, var>>])

\* abs(self.get_annualized_return()), then self.get_max_drawdown(), which
\* the class does not define.
CalmarRatio(assets, dts) ==
    LET ann == AnnualizedReturn(assets, dts)
    IN IF ann.exc # "none" THEN ann
       ELSE Raise("AttributeError_get_max_drawdown")

ValidateData(assets, dts) ==
    (IF Len(assets) = 0 THEN <<"no_asset_data">> ELSE <<>>)
    \o (IF HasNonPositive(assets) THEN <<"non_positive_assets">> ELSE <<>>)
    \o (IF Len(dts) # Len(assets) THEN <<"length_mismatch">> ELSE <<>>)

\* -------------------------------------------------------- trade statistics
\* A trade record: action, and the optional fields profit and return_rate,
\* <<>> when the record has no such key and <<x>> when it has.
Absent == <<>>
Has(field) == field # Absent

Profits == {-5, 0, 10}
ReturnRates == {Norm(1, 10)}

Trades ==
    [action : {"buy", "sell"},
     profit : {Absent} \cup {<<p>> : p \in Profits},
     return_rate : {Absent} \cup {<<r>> : r \in ReturnRates}]

IsSell(t) == t.action = "sell"
IsBuy(t) == t.action = "buy"

\* 'profit' in trades.columns: some record of the history has the key.
HasProfitColumn(h) == \E i \in 1..Len(h) : Has(h[i].profit)
HasReturnRateColumn(h) == \E i \in 1..Len(h) : Has(h[i].return_rate)

\* profit >= 0 in the place of profit > 0.
IsWinningNonNegative(t) == Has(t.profit) /\ t.profit[1] >= 0

\* sell_trades['profit'] > 0: false where the record has no profit (NaN).
IsWinning(t) == Has(t.profit) /\ t.profit[1] > 0

TradeCount(h) == Ok([kind |-> "int", v |-> Len(h)])

BuySellCount(h) ==
    IF Len(h) = 0 THEN Ok([kind |-> "pair", v |-> <<0, 0>>])
    ELSE Ok([kind |-> "pair",
             v |-> <<Len(SelectSeq(h, IsBuy)), Len(SelectSeq(h, IsSell))>>])

WinRate(h) ==
    IF Len(h) = 0 THEN Ok(Zero)
    ELSE LET sell_trades == SelectSeq(h, IsSell)
         IN IF Len(sell_trades) = 0 THEN Ok(Zero)
            ELSE IF HasProfitColumn(h)
            THEN Ok(Float(RMul(Norm(Len(SelectSeq(sell_trades, IsWinning)),
                                    Len(sell_trades)),
                               Rat(Percent))))
            ELSE Ok(Zero)

HasReturnRate(t) == Has(t.return_rate)

\* trades['return_rate'].mean() * 100: the mean skips the records without
\* the field.
AvgTradeReturn(h) ==
    IF Len(h) = 0 THEN Ok(Zero)
    ELSE IF HasReturnRateColumn(h)
    THEN LET rated == SelectSeq(h, HasReturnRate)
             rates == [i \in 1..Len(rated) |-> rated[i].return_rate[1]]
         IN Ok(Float(RMul(Mean(rates), Rat(Percent))))
    ELSE Ok(Zero)

\* ------------------------------------------------- get_performance_summary
\* The first call of the sequence that raises ends the summary.
RECURSIVE FirstRaise(_, _)
FirstRaise(outs, i) ==
    IF i > Len(outs) THEN "none"
    ELSE IF outs[i].exc # "none" THEN outs[i].exc
    ELSE FirstRaise(outs, i + 1)

\* round(x, n) of a complex number raises TypeError.
RoundRaises(outs) == \E i \in 1..Len(outs) : outs[i].val.kind = "complex"

PerformanceSummary(rets, assets, dts, h) ==
    LET outs == << TotalReturn(assets),
                   AnnualizedReturn(assets, dts),
                   SharpeRatio(rets, assets, dts),
                   Volatility(rets),
                   CalmarRatio(assets, dts),
                   TradeCount(h),
                   BuySellCount(h),
                   WinRate(h),
                   AvgTradeReturn(h) >>
        exc == FirstRaise(outs, 1)
    IN IF exc # "none" THEN Raise(exc)
       ELSE IF RoundRaises(outs) THEN Raise("TypeError")
       ELSE Ok([kind |-> "dict", v |-> [i \in 1..Len(outs) |-> outs[i].val]])

\* ------------------------------------------------------------------ state
RECURSIVE SeqsOfLen(_, _)
SeqsOfLen(S, n) ==
    IF n = 0 THEN {<<>>}
    ELSE {Append(q, x) : q \in SeqsOfLen(S, n - 1), x \in S}

SeqsUpTo(S, n) == UNION {SeqsOfLen(S, k) : k \in 0..n}

\* n strictly increasing dates.
DatesOf(n) == [i \in 1..n |-> i]

SellWin == [action |-> "sell", profit |-> <<10>>, return_rate |-> <<Norm(1, 10)>>]
BuyBare == [action |-> "buy", profit |-> Absent, return_rate |-> Absent]

\* The trade histories of the ledgers whose asset values vary.
LedgerHistories == {<<>>, <<BuyBare, SellWin>>}

\* No analyzer yet: the state before PerformanceAnalysis(account).
\* cumprod_failed records whether the latest compounding of (1 + returns)
\* raised a numeric error.
Fresh ==
    /\ strategy_returns = None
    /\ cumulative_returns = None
    /\ cumulative_net_assets = None
    /\ phase = "fresh"
    /\ lastCall = "none"
    /\ raised = "none"
    /\ result = NoValue
    /\ cumprod_failed = FALSE

Init ==
    /\ total_assets \in SeqsUpTo(Assets, MaxLen)
    /\ dates \in {DatesOf(n) : n \in 0..MaxLen}
    /\ trade_history \in LedgerHistories
    /\ Fresh

InitTrades ==
    /\ total_assets = <<10, 11, 12>>
    /\ dates = DatesOf(3)
    /\ trade_history \in SeqsUpTo(Trades, MaxTrades)
    /\ Fresh

\* A call on the constructed analyzer that returns or raises `out` and
\* leaves the derived series alone.
Returns(name, out) ==
    /\ lastCall' = name
    /\ raised' = out.exc
    /\ result' = out.val

\* A getter that reads self.strategy_returns, computing it when it is None.
Getter(name, out) ==
    /\ phase = "live"
    /\ Returns(name, out)
    /\ UNCHANGED <<ledger, series, phase, cumprod_failed>>

LazyGetter(name, rets, out) ==
    /\ phase = "live"
    /\ strategy_returns' = IF rets.exc = "none" THEN Some(rets.val)
                           ELSE strategy_returns
    /\ Returns(name, IF rets.exc = "none" THEN out ELSE rets)
    /\ UNCHANGED <<ledger, cumulative_returns, cumulative_net_assets, phase,
                   cumprod_failed>>

\* ---------------------------------------------------------------- actions
\* The cumulative series of a return series (the class's second, overriding
\* definition of calculate_cumulative_returns): the compounding either
\* raises, and the exception leaves the method, or yields both series.
Compound(rets, fails) ==
    IF fails THEN Raise("ArithmeticError")
    ELSE Ok(CumProd(AddOne(rets)))

\* PerformanceAnalysis(account)
Construct ==
    /\ phase = "fresh"
    /\ \E fails \in BOOLEAN :
         LET rets == CalcReturns(total_assets, dates)
             net == IF rets.exc = "none" THEN Compound(rets.val, fails) ELSE rets
         IN /\ strategy_returns' = IF rets.exc = "none" THEN Some(rets.val) ELSE None
            /\ cumulative_net_assets' = IF net.exc = "none" THEN Some(net.val) ELSE None
            /\ cumulative_returns' = IF net.exc = "none" THEN Some(SubOne(net.val)) ELSE None
            /\ phase' = IF net.exc = "none" THEN "live" ELSE "dead"
            /\ lastCall' = "__init__"
            /\ raised' = net.exc
            /\ result' = NoValue
            /\ cumprod_failed' = (rets.exc = "none" /\ fails)
    /\ UNCHANGED ledger

calculate_returns ==
    /\ phase = "live"
    /\ LET rets == CalcReturns(total_assets, dates)
       IN /\ strategy_returns' = IF rets.exc = "none" THEN Some(rets.val)
                                 ELSE strategy_returns
          /\ Returns("calculate_returns",
                     IF rets.exc = "none" THEN Ok([kind |-> "series", v |-> rets.val])
                     ELSE rets)
    /\ UNCHANGED <<ledger, cumulative_returns, cumulative_net_assets, phase,
                   cumprod_failed>>

calculate_cumulative_returns ==
    /\ phase = "live"
    /\ \E fails \in BOOLEAN :
         LET rets == EnsureReturns
             net == IF rets.exc = "none" THEN Compound(rets.val, fails) ELSE rets
         IN /\ strategy_returns' = IF rets.exc = "none" THEN Some(rets.val)
                                   ELSE strategy_returns
            /\ cumulative_net_assets' = IF net.exc = "none" THEN Some(net.val)
                                        ELSE cumulative_net_assets
            /\ cumulative_returns' = IF net.exc = "none" THEN Some(SubOne(net.val))
                                     ELSE cumulative_returns
            /\ Returns("calculate_cumulative_returns",
                       IF net.exc = "none"
                       THEN Ok([kind |-> "series", v |-> SubOne(net.val)])
                       ELSE net)
            /\ cumprod_failed' = (rets.exc = "none" /\ fails)
    /\ UNCHANGED <<ledger, phase>>

get_total_return == Getter("get_total_return", TotalReturn(total_assets))

get_annualized_return ==
    Getter("get_annualized_return", AnnualizedReturn(total_assets, dates))

get_sharpe_ratio ==
    LET rets == EnsureReturns
    IN LazyGetter("get_sharpe_ratio", rets,
                  SharpeRatio(rets.val, total_assets, dates))

get_volatility ==
    LET rets == EnsureReturns
    IN LazyGetter("get_volatility", rets, Volatility(rets.val))

get_calmar_ratio == Getter("get_calmar_ratio", CalmarRatio(total_assets, dates))

get_trade_count == Getter("get_trade_count", TradeCount(trade_history))

get_buy_sell_count == Getter("get_buy_sell_count", BuySellCount(trade_history))

get_win_rate == Getter("get_win_rate", WinRate(trade_history))

get_avg_trade_return ==
    Getter("get_avg_trade_return", AvgTradeReturn(trade_history))

validate_data ==
    Getter("validate_data",
           Ok([kind |-> "list", v |-> ValidateData(total_assets, dates)]))

get_performance_summary ==
    LET rets == EnsureReturns
    IN LazyGetter("get_performance_summary", rets,
                  PerformanceSummary(rets.val, total_assets, dates, trade_history))

Next ==
    \/ Construct
    \/ calculate_returns
    \/ calculate_cumulative_returns
    \/ get_total_return
    \/ get_annualized_return
    \/ get_sharpe_ratio
    \/ get_volatility
    \/ get_calmar_ratio
    \/ get_trade_count
    \/ get_buy_sell_count
    \/ get_win_rate
    \/ get_avg_trade_return
    \/ validate_data
    \/ get_performance_summary

Spec == Init /\ [][Next]_vars

NextTrades ==
    \/ Construct
    \/ get_trade_count
    \/ get_buy_sell_count
    \/ get_win_rate
    \/ get_avg_trade_return

SpecTrades == InitTrades /\ [][NextTrades]_vars

\* ----------------------------------------------------------------- claims
N == Len(total_assets)

\* The last call returned the float x.
ReturnedFloat(x) == result.kind = "float" /\ result.v = x
Consistent == N >= 1 /\ Len(dates) = N

\* C1: for every non-empty, length-consistent ledger, constructing the
\* analyzer and calling get_performance_summary returns the metric mapping
\* and raises nothing.
C1_SummaryNeverRaises ==
    (lastCall = "get_performance_summary" /\ Consistent)
        => (raised = "none" /\ result.kind = "dict")

\* C2: in calculate_returns every non-positive asset value is replaced by
\* the most recent positive value before it, and by 1e-6 when no positive
\* value precedes it.
RECURSIVE LastPositiveBefore(_, _)
LastPositiveBefore(assets, i) ==
    IF i = 1 THEN Eps
    ELSE IF assets[i - 1] > 0 THEN Rat(assets[i - 1])
    ELSE LastPositiveBefore(assets, i - 1)

C2_NonPositiveForwardFilled ==
    (phase = "live" /\ lastCall = "__init__")
        => \A i \in 1..N :
             total_assets[i] <= 0
                 => CleanAssets(total_assets)[i] = LastPositiveBefore(total_assets, i)

\* C3: after construction returns[0] is 0 and every later return lies in
\* [-0.11, 0.11].
C3_ReturnsClamped ==
    phase = "live"
        => /\ strategy_returns.s[1] = Rat(0)
           /\ \A i \in 2..Len(strategy_returns.s) :
                /\ RLe(Norm(-ClipNum, ClipDen), strategy_returns.s[i])
                /\ RLe(strategy_returns.s[i], Norm(ClipNum, ClipDen))

\* A ledger with a substituted value whose returns reach both ends of the band.
C3_Witness ==
    /\ phase = "live"
    /\ HasNonPositive(total_assets)
    /\ \E i \in 2..N : strategy_returns.s[i] = Norm(ClipNum, ClipDen)
    /\ \E i \in 2..N : strategy_returns.s[i] = Norm(-ClipNum, ClipDen)

\* C4: after construction cumulative_net_assets[i] is the product of
\* (1 + returns[k]) for k <= i, and cumulative_returns[i] is that minus 1.
RECURSIVE ProductOfGrowth(_, _)
ProductOfGrowth(rets, i) ==
    IF i = 0 THEN Rat(1)
    ELSE RMul(RAdd(Rat(1), rets[i]), ProductOfGrowth(rets, i - 1))

C4_CumulativeIsProduct ==
    phase = "live"
        => /\ cumulative_net_assets.s[1] = Rat(1)
           /\ \A i \in 1..N :
                /\ cumulative_net_assets.s[i] = ProductOfGrowth(strategy_returns.s, i)
                /\ cumulative_returns.s[i]
                       = RSub(ProductOfGrowth(strategy_returns.s, i), Rat(1))

\* Three observations with two different non-zero returns.
C4_Witness ==
    /\ phase = "live"
    /\ N >= 3
    /\ strategy_returns.s[2] # Rat(0)
    /\ strategy_returns.s[3] # Rat(0)
    /\ strategy_returns.s[2] # strategy_returns.s[3]
    /\ cumulative_net_assets.s[3] # cumulative_net_assets.s[2]

\* C5: construction raises a data error only when the ledger has no asset
\* data, where it does raise; a ledger with N >= 1 whose dates and
\* total_assets differ in length is constructed.
C5_OnlyEmptyLedgerRaises ==
    lastCall = "__init__"
        => /\ N = 0 => raised = "ValueError_no_asset_data"
           /\ N >= 1 => raised \notin {"ValueError_no_asset_data",
                                       "ValueError_length_mismatch"}

\* C6 as stated: get_win_rate is 100 * (sell trades with profit > 0) /
\* (sell trades that have a profit field), and 0.0 when no sell trade has
\* a profit field.
SellCount(h) == Cardinality({i \in 1..Len(h) : h[i].action = "sell"})
SellWithProfitCount(h) ==
    Cardinality({i \in 1..Len(h) : h[i].action = "sell" /\ h[i].profit # <<>>})
SellWonCount(h) ==
    Cardinality({i \in 1..Len(h) :
                   h[i].action = "sell" /\ h[i].profit # <<>> /\ h[i].profit[1] > 0})

C6_WinRateOverSellsWithProfit ==
    lastCall = "get_win_rate"
        => /\ raised = "none"
           /\ ReturnedFloat(IF SellWithProfitCount(trade_history) = 0 THEN Rat(0)
                             ELSE Norm(Percent * SellWonCount(trade_history),
                                       SellWithProfitCount(trade_history)))

\* C6 amended: get_win_rate is 100 * (sell trades with profit > 0) / (all
\* sell trades) when the history has a sell trade and some record of it, of
\* either action, has a profit field; otherwise it is 0.0.
C6_WinRateOverAllSells ==
    lastCall = "get_win_rate"
        => /\ raised = "none"
           /\ ReturnedFloat(IF SellCount(trade_history) = 0
                                \/ \A i \in 1..Len(trade_history) :
                                      trade_history[i].profit = <<>>
                             THEN Rat(0)
                             ELSE Norm(Percent * SellWonCount(trade_history),
                                       SellCount(trade_history)))

\* A winning sell next to a sell without a profit field: the rate is 50.
C6_Witness ==
    /\ lastCall = "get_win_rate"
    /\ SellWonCount(trade_history) = 1
    /\ SellCount(trade_history) = 2
    /\ SellWithProfitCount(trade_history) = 1
    /\ ReturnedFloat(Rat(50))

\* C7: a numeric failure of the compounding does not leave
\* calculate_cumulative_returns; cumulative_net_assets becomes all 1.0 and
\* cumulative_returns all 0.0, as long as the return series.
C7_FailureFallsBack ==
    (cumprod_failed /\ lastCall \in {"__init__", "calculate_cumulative_returns"})
        => /\ raised = "none"
           /\ ~cumulative_net_assets.none
           /\ cumulative_net_assets.s = [i \in 1..Len(strategy_returns.s) |-> Rat(1)]
           /\ cumulative_returns.s = [i \in 1..Len(strategy_returns.s) |-> Rat(0)]

\* C8: with one observation get_total_return, get_annualized_return,
\* get_volatility and get_sharpe_ratio return 0.0; with N >= 2 and a
\* positive initial asset get_total_return is (final / initial - 1) * 100
\* of the raw values.
C8_DegenerateAndTotalReturn ==
    /\ (N = 1 /\ Len(dates) = 1
        /\ lastCall \in {"get_total_return", "get_annualized_return",
                         "get_volatility", "get_sharpe_ratio"})
           => (raised = "none" /\ ReturnedFloat(Rat(0)))
    /\ (N >= 2 /\ lastCall = "get_total_return" /\ total_assets[1] > 0)
           => /\ raised = "none"
              /\ ReturnedFloat(Norm(Percent * (total_assets[N] - total_assets[1]),
                                     total_assets[1]))

\* get_sharpe_ratio has answered on a ledger of one observation.
C8_Witness ==
    /\ N = 1
    /\ Len(dates) = 1
    /\ lastCall = "get_sharpe_ratio"
    /\ raised = "none"

\* C9: once constructed, the three derived series are as long as dates, and
\* stay so after every call.
C9_LengthsAgree ==
    phase = "live"
        => /\ ~strategy_returns.none
           /\ ~cumulative_returns.none
           /\ ~cumulative_net_assets.none
           /\ Len(strategy_returns.s) = Len(dates)
           /\ Len(cumulative_returns.s) = Len(dates)
           /\ Len(cumulative_net_assets.s) = Len(dates)

\* The series were recomputed after construction on a ledger of several days.
C9_Witness ==
    /\ phase = "live"
    /\ lastCall = "calculate_cumulative_returns"
    /\ raised = "none"
    /\ Len(dates) >= 3

\* C10: with N >= 2, every asset positive and every raw day-over-day change
\* within [-0.11, 0.11], the last cumulative net value is final / initial
\* and get_total_return is 100 times the last cumulative return.
InBand(assets) ==
    /\ \A i \in 1..Len(assets) : assets[i] > 0
    /\ \A i \in 2..Len(assets) :
         ClipDen * Abs(assets[i] - assets[i - 1]) <= ClipNum * assets[i - 1]

C10_TotalReturnMatchesCumulative ==
    (lastCall = "get_total_return" /\ N >= 2 /\ InBand(total_assets))
        => /\ raised = "none"
           /\ cumulative_net_assets.s[N] = Norm(total_assets[N], total_assets[1])
           /\ ReturnedFloat(RMul(Rat(Percent), cumulative_returns.s[N]))

\* Two in-band changes that compound to a non-zero total return.
C10_Witness ==
    /\ lastCall = "get_total_return"
    /\ N >= 3
    /\ InBand(total_assets)
    /\ \A i \in 2..N : total_assets[i] # total_assets[i - 1]
    /\ total_assets[N] # total_assets[1]
    /\ ~ReturnedFloat(Rat(0))

====
